---- MODULE Spec2Model ----
(***************************************************************************)
(* A model of package hibp (src/hibp/range.go): the k-anonymity lookup     *)
(* Finder.Find, its helpers fetchPrefix, findSuffix and parseCount, and    *)
(* the two table tests of src/hibp/range_test.go that call the helpers     *)
(* directly.                                                               *)
(*                                                                         *)
(* Text is a sequence of one-character strings.  Two kinds of element      *)
(* stand for more than one byte: Pad (a run of MaxScanTokenSize filler     *)
(* bytes, none of them a newline, a colon or a hex digit) and the literal  *)
(* chunks of a format string (text free of '%').                           *)
(* An int64 is a record [neg, mag]: a sign and the decimal digits of the   *)
(* magnitude without leading zeros, so the 64-bit range is kept exactly.   *)
(***************************************************************************)
EXTENDS Integers, Sequences, FiniteSets, TLC

\* ------------------------------------------------------------ bounds
\* Lines per response body.
MaxLines == 2
\* Goroutines calling Find on one Finder in the concurrent specification.
NumCallers == 2

\* --------------------------------------------------- program constants
\* crypto/sha1.Size, the length Find compares len(sum) with.
sha1Size == 20
\* A prefix one hex digit longer.
prefixSizeLeak == 5 + 1
\* const prefixSize
prefixSize == 5
\* The status fetchPrefix accepts.
StatusOK == 200
\* bufio.MaxScanTokenSize, the limit of the Scanner findSuffix builds.
MaxScanTokenSize == 65536

\* ------------------------------------------------------------- text
NL == "\n"
CR == "\r"
Colon == ":"
Pad == "<pad>"

\* var delim = []byte(":")
delim == <<Colon>>

\* const errMsgFormat
errMsgFormat == <<"hibp: problem parsing results">>

\* const DefaultTemplate
DefaultTemplate == <<"https://api.pwnedpasswords.com/range/", "%", "s">>

\* The number of bytes a text stands for.
RECURSIVE ByteLen(_)
ByteLen(t) ==
  IF t = <<>> THEN 0
  ELSE (IF Head(t) = Pad THEN MaxScanTokenSize ELSE 1) + ByteLen(Tail(t))

HexDigits == <<"0", "1", "2", "3", "4", "5", "6", "7", "8", "9", "A", "B", "C", "D", "E", "F">>
DecDigits == <<"0", "1", "2", "3", "4", "5", "6", "7", "8", "9">>

\* fmt.Sprintf("%X", sum) for a []byte: two uppercase hex digits per byte.
RECURSIVE SprintfX(_)
SprintfX(sum) ==
  IF sum = <<>> THEN <<>>
  ELSE <<HexDigits[(Head(sum) \div 16) + 1], HexDigits[(Head(sum) % 16) + 1]>>
         \o SprintfX(Tail(sum))

\* The decimal text of a byte value, as one chunk per digit.
RECURSIVE Itoa(_)
Itoa(n) == IF n < 10 THEN <<DecDigits[n + 1]>> ELSE Append(Itoa(n \div 10), DecDigits[(n % 10) + 1])

\* The ASCII code of a hex digit character (the bytes Find holds).
AsciiOf(ch) ==
  LET i == CHOOSE k \in 1..16 : HexDigits[k] = ch
  IN  IF i <= 10 THEN 47 + i ELSE 54 + i

\* %v of a []byte: [50 49 66].
RECURSIVE BytesV(_)
BytesV(b) ==
  IF b = <<>> THEN <<>>
  ELSE Itoa(AsciiOf(Head(b))) \o (IF Len(b) > 1 THEN <<" ">> ELSE <<>>) \o BytesV(Tail(b))

\* fmt's handling of the arguments no verb consumed.
RECURSIVE SprintfExtra(_)
SprintfExtra(args) ==
  IF args = <<>> THEN <<>>
  ELSE <<"[]uint8=", "[">> \o BytesV(Head(args)) \o <<"]">>
         \o (IF Len(args) > 1 THEN <<", ">> ELSE <<>>) \o SprintfExtra(Tail(args))

\* fmt.Sprintf(format, args...) for the verbs this package uses: %s of a
\* []byte prints its bytes, %% prints a percent sign, a verb with no
\* argument left prints %!s(MISSING), a trailing % prints %!(NOVERB), and
\* arguments left over are reported as %!(EXTRA ...).
RECURSIVE Sprintf(_, _)
Sprintf(format, args) ==
  IF format = <<>>
    THEN IF args = <<>> THEN <<>> ELSE <<"%!(EXTRA ">> \o SprintfExtra(args) \o <<")">>
  ELSE IF Head(format) # "%" THEN <<Head(format)>> \o Sprintf(Tail(format), args)
  ELSE IF Len(format) = 1 THEN <<"%!(NOVERB)">> \o Sprintf(<<>>, args)
  ELSE IF format[2] = "%" THEN <<"%">> \o Sprintf(SubSeq(format, 3, Len(format)), args)
  ELSE IF args = <<>>
    THEN <<"%!", format[2], "(MISSING)">> \o Sprintf(SubSeq(format, 3, Len(format)), args)
  ELSE Head(args) \o Sprintf(SubSeq(format, 3, Len(format)), Tail(args))

\* ------------------------------------------------------------ errors
\* An error value: its kind and its message text.
NoErr == [kind |-> "nil", text |-> <<>>]
ErrShortBuffer == [kind |-> "io.ErrShortBuffer", text |-> <<"short buffer">>]
ErrShortWrite == [kind |-> "io.ErrShortWrite", text |-> <<"short write">>]
ErrTooLong == [kind |-> "bufio.ErrTooLong", text |-> <<"bufio.Scanner: token too long">>]
\* fmt.Errorf(format, args...)
Errorf(format, args) == [kind |-> "fmt.Errorf", text |-> Sprintf(format, args)]
\* *strconv.NumError of ParseInt: the cause and the quoted input.
NumError(cause, s) == [kind |-> cause, text |-> s]

\* ------------------------------------------------------ strconv.ParseInt
Zero == [neg |-> FALSE, mag |-> <<0>>]
\* 1<<63 - 1, 1<<63 and 1<<64 - 1 as digits.
MaxInt64Mag == <<9, 2, 2, 3, 3, 7, 2, 0, 3, 6, 8, 5, 4, 7, 7, 5, 8, 0, 7>>
CutoffMag == <<9, 2, 2, 3, 3, 7, 2, 0, 3, 6, 8, 5, 4, 7, 7, 5, 8, 0, 8>>
MaxUint64Mag == <<1, 8, 4, 4, 6, 7, 4, 4, 0, 7, 3, 7, 0, 9, 5, 5, 1, 6, 1, 5>>

\* a < b for two magnitudes without leading zeros.
MagLess(a, b) ==
  \/ Len(a) < Len(b)
  \/ /\ Len(a) = Len(b)
     /\ \E i \in 1..Len(a) : a[i] < b[i] /\ \A j \in 1..(i - 1) : a[j] = b[j]

IsDigit(ch) == \E k \in 1..10 : DecDigits[k] = ch
DigitVal(ch) == (CHOOSE k \in 1..10 : DecDigits[k] = ch) - 1

\* n*10 + d
MagPush(n, d) == IF n = <<0>> THEN <<d>> ELSE Append(n, d)

\* strconv.ParseUint(s, 10, 64), left to right from magnitude n: the first
\* byte that is no digit ends it with ErrSyntax and 0, the first digit that
\* takes the value past 1<<64 - 1 ends it with ErrRange and 1<<64 - 1.
RECURSIVE ParseUintFrom(_, _)
ParseUintFrom(s, n) ==
  IF s = <<>> THEN [mag |-> n, cause |-> "nil"]
  ELSE IF ~IsDigit(Head(s)) THEN [mag |-> <<0>>, cause |-> "strconv.ErrSyntax"]
  ELSE IF MagLess(MaxUint64Mag, MagPush(n, DigitVal(Head(s))))
    THEN [mag |-> MaxUint64Mag, cause |-> "strconv.ErrRange"]
  ELSE ParseUintFrom(Tail(s), MagPush(n, DigitVal(Head(s))))

ParseUint(s) ==
  IF s = <<>> THEN [mag |-> <<0>>, cause |-> "strconv.ErrSyntax"] ELSE ParseUintFrom(s, <<0>>)

\* strconv.ParseInt(s, 10, 64): an optional sign, then ParseUint; a syntax
\* error gives 0, a value out of range gives the nearest int64 together
\* with ErrRange.
ParseInt(s) ==
  IF s = <<>> THEN [n |-> Zero, err |-> NumError("strconv.ErrSyntax", s)]
  ELSE
    LET neg == Head(s) = "-"
        body == IF Head(s) \in {"+", "-"} THEN Tail(s) ELSE s
        un == ParseUint(body)
    IN  IF un.cause = "strconv.ErrSyntax"
          THEN [n |-> Zero, err |-> NumError("strconv.ErrSyntax", s)]
        ELSE IF ~neg /\ ~MagLess(un.mag, CutoffMag)
          THEN [n |-> [neg |-> FALSE, mag |-> MaxInt64Mag], err |-> NumError("strconv.ErrRange", s)]
        ELSE IF neg /\ MagLess(CutoffMag, un.mag)
          THEN [n |-> [neg |-> TRUE, mag |-> CutoffMag], err |-> NumError("strconv.ErrRange", s)]
        ELSE [n |-> [neg |-> neg /\ un.mag # <<0>>, mag |-> un.mag], err |-> NoErr]

\* ---------------------------------------------------------- bufio.Scanner
\* The index of the first newline of a text, 0 when it has none.
FirstNL(t) == IF \E i \in 1..Len(t) : t[i] = NL
                THEN CHOOSE i \in 1..Len(t) : t[i] = NL /\ \A j \in 1..(i - 1) : t[j] # NL
                ELSE 0

\* bufio.ScanLines' dropCR
dropCR(data) ==
  IF Len(data) > 0 /\ data[Len(data)] = CR THEN SubSeq(data, 1, Len(data) - 1) ELSE data

\* One call of Scanner.Scan on the unread text: the token, what is left to
\* read, and whether the call stopped on a line that does not fit the
\* buffer (the line's bytes before its newline fill all MaxScanTokenSize
\* bytes of it).  ok is what Scan returns.
ScanStep(t) ==
  LET i == FirstNL(t)
      raw == IF i = 0 THEN t ELSE SubSeq(t, 1, i - 1)
      rest == IF i = 0 THEN <<>> ELSE SubSeq(t, i + 1, Len(t))
  IN  IF t = <<>> THEN [ok |-> FALSE, token |-> <<>>, rest |-> <<>>, err |-> NoErr]
      ELSE IF ByteLen(raw) >= MaxScanTokenSize
        THEN [ok |-> FALSE, token |-> <<>>, rest |-> <<>>, err |-> ErrTooLong]
      ELSE [ok |-> TRUE, token |-> dropCR(raw), rest |-> rest, err |-> NoErr]

\* bytes.Contains in the place of bytes.HasPrefix.
HasPrefixAnywhere(b, prefix) ==
  \E k \in 0..(Len(b) - Len(prefix)) : SubSeq(b, k + 1, k + Len(prefix)) = prefix
\* bytes.HasPrefix
HasPrefix(b, prefix) == Len(b) >= Len(prefix) /\ SubSeq(b, 1, Len(prefix)) = prefix

\* bytes.Split(line, sep) for a one-byte separator.
RECURSIVE Split(_, _)
Split(line, sep) ==
  LET hit == {i \in 1..Len(line) : line[i] = sep[1]}
  IN  IF hit = {} THEN <<line>>
      ELSE LET i == CHOOSE k \in hit : \A m \in hit : k <= m
           IN  <<SubSeq(line, 1, i - 1)>> \o Split(SubSeq(line, i + 1, Len(line)), sep)

\* ------------------------------------------------------------- helpers
\* A scan that keeps going after a match and returns the last one.
RECURSIVE findSuffixLast(_, _)
findSuffixLast(suffix, content) ==
  LET s == ScanStep(content)
      later == findSuffixLast(suffix, s.rest)
  IN  IF ~s.ok THEN [line |-> <<>>, err |-> s.err]
      ELSE IF HasPrefix(s.token, suffix) /\ (later.err # NoErr \/ Len(later.line) = 0)
        THEN [line |-> s.token, err |-> NoErr]
      ELSE later
\* func findSuffix: the first token the scanner delivers that begins with
\* suffix, otherwise no line and scanner.Err().
RECURSIVE findSuffix(_, _)
findSuffix(suffix, content) ==
  LET s == ScanStep(content)
  IN  IF ~s.ok THEN [line |-> <<>>, err |-> s.err]
      ELSE IF HasPrefix(s.token, suffix) THEN [line |-> s.token, err |-> NoErr]
      ELSE findSuffix(suffix, s.rest)

\* func parseCount
parseCount(line) ==
  LET parts == Split(line, delim)
  IN  IF Len(parts) # 2
        THEN [n |-> Zero, err |-> Errorf(<<"%", "s", ": ", "%", "s">>, <<errMsgFormat, line>>)]
      ELSE ParseInt(parts[2])

\* ------------------------------------------------------------- inputs
\* alpha of TestFindErrors: "abcdefghijklmnopqrstuvwxyz"
Alpha == [i \in 1..26 |-> 96 + i]
\* sha1.Sum of "melobie", "lauragpe" and "gonna-miss" (TestFind): the first
\* two share their first five hex digits, 21BD1.
SumMelobie == <<33, 189, 16, 18, 167, 202, 53, 117, 65, 240, 172, 72, 120, 113, 254, 236, 24, 145, 196, 156>>
SumLauragpe == <<33, 189, 16, 1, 138, 69, 196, 209, 222, 248, 22, 68, 181, 74, 183, 249, 105, 184, 141, 101>>
SumGonnaMiss == <<93, 40, 77, 4, 182, 160, 49, 103, 94, 14, 6, 10, 151, 152, 108, 48, 232, 166, 123, 97>>
\* SumMelobie with another sixth hex digit: 21BD1F...
SumSixth == [SumMelobie EXCEPT ![3] = 31]

ShortSums == {<<>>, SubSeq(Alpha, 1, 19)}
LongSums == {SubSeq(Alpha, 1, 21)}
FullSums == {SumMelobie, SumLauragpe, SumGonnaMiss, SumSixth}
Digests == ShortSums \cup LongSums \cup FullSums

\* The 35 hex digits after the prefix.
SuffixOf(sum) == SubSeq(SprintfX(sum), prefixSize + 1, Len(SprintfX(sum)))
S1 == SuffixOf(SumMelobie)
S2 == SuffixOf(SumLauragpe)

\* A text with its hex letters in lower case.
Lower(t) ==
  [i \in 1..Len(t) |->
     CASE t[i] = "A" -> "a" [] t[i] = "B" -> "b" [] t[i] = "C" -> "c"
       [] t[i] = "D" -> "d" [] t[i] = "E" -> "e" [] t[i] = "F" -> "f" [] OTHER -> t[i]]

\* The lines a response body is made of: records of the two test passwords,
\* malformed records, records whose leading field only resembles the suffix,
\* an empty line and a line too long for the scanner.
LineFound == S1 \o <<Colon>> \o <<"4", "0", "1">>
LineZero == S1 \o <<Colon>> \o <<"0">>
LineMinus == S1 \o <<Colon>> \o <<"-", "5">>
LineWord == S1 \o <<Colon>> \o <<"b", "r", "a", "v", "o">>
LineNoCount == S1 \o <<Colon>>
LineNoDelim == S1
LineTwoDelims == S1 \o <<Colon>> \o <<"1", ":", "2">>
LineTooBig == S1 \o <<Colon>> \o <<"9", "2", "2", "3", "3", "7", "2", "0", "3", "6", "8", "5", "4", "7", "7", "5", "8", "0", "8">>
LineLonger == S1 \o <<"F", Colon>> \o <<"7">>
LineLower == Lower(S1) \o <<Colon>> \o <<"9">>
LineInside == <<"0">> \o S1 \o <<Colon>> \o <<"3">>
LineOther == S2 \o <<Colon>> \o <<"2", "2", "9">>
LineEmpty == <<>>
LineOverlong == <<Pad>>

LinePool ==
  { LineFound, LineZero, LineMinus, LineWord, LineNoCount, LineNoDelim, LineTwoDelims,
    LineTooBig, LineLonger, LineLower, LineInside, LineOther, LineEmpty, LineOverlong }

\* Lines joined into a body: every line ended by "\n", or the lines
\* separated by "\r\n" with none after the last.
RECURSIVE JoinLF(_)
JoinLF(ls) == IF ls = <<>> THEN <<>> ELSE Head(ls) \o <<NL>> \o JoinLF(Tail(ls))
RECURSIVE JoinCRLF(_)
JoinCRLF(ls) ==
  IF ls = <<>> THEN <<>>
  ELSE IF Len(ls) = 1 THEN Head(ls)
  ELSE Head(ls) \o <<CR, NL>> \o JoinCRLF(Tail(ls))

LineSeqs == UNION {[1..n -> LinePool] : n \in 0..MaxLines}
Bodies == {JoinLF(ls) : ls \in LineSeqs} \cup {JoinCRLF(ls) : ls \in LineSeqs}

\* The bodies of the concurrent specification.
ConcBodies ==
  { JoinLF(<<LineEmpty, LineOther, LineFound>>),
    JoinCRLF(<<LineWord, LineFound>>),
    JoinLF(<<LineOther>>) }
ConcDigests == {SubSeq(Alpha, 1, 19), SumMelobie, SumSixth, SumGonnaMiss}

\* URL templates: the default, the test server's, one with the prefix in
\* the middle and an escaped percent sign, and one with no verb at all.
Templates ==
  { DefaultTemplate,
    <<"http://127.0.0.1:8080/", "%", "s">>,
    <<"https://mirror.example/100", "%", "%", "/", "%", "s", "/range.txt">>,
    <<"https://mirror.example/range">> }
Clients == {"http.DefaultClient", "ts.Client()"}

\* func WithURLTemplate and func WithClient, as the option they return.
WithURLTemplate(template) == [opt |-> "tmpl", tmpl |-> template, conn |-> ""]
WithClient(client) == [opt |-> "conn", tmpl |-> <<>>, conn |-> client]

\* The option lists of the tests: none, and TestFind's with its server's
\* client and URL.
TestOptions ==
  { <<>>, <<WithClient("ts.Client()"), WithURLTemplate(<<"http://127.0.0.1:8080/", "%", "s">>)>> }
\* Any template and client; a later option of a kind replaces an earlier one.
AnyOptions ==
  {<<>>}
    \cup {<<WithURLTemplate(t)>> : t \in Templates}
    \cup {<<WithURLTemplate(DefaultTemplate), WithClient(k), WithURLTemplate(t)>> :
            t \in Templates, k \in Clients}

\* -------------------------------------------------------------- state
VARIABLES
  f,        \* the Finder: [tmpl, conn]
  server,   \* the remote endpoint: [fixed, content]; a fixed server answers
            \* every request from the same Candidate Set
  active,   \* the goroutines that call Find
  pc,       \* where each caller is: idle, fetch, scan, parse, done
  sum,      \* the argument of the call
  full,     \* Find's local full, per frame
  body,     \* Find's local body, per frame
  line,     \* Find's local line, per frame
  ret,      \* what the call returned: [n, err]
  resp,     \* what the endpoint answered to the call's request, once sent
  req,      \* the URLs the call asked the client to get, in order
  trace,    \* the steps the call has taken, in order
  parsed,   \* the last case of TestParseCount: [ran, input, out]
  found     \* the last case of TestFindSuffix: [ran, suffix, content, out]

vars == <<f, server, active, pc, sum, full, body, line, ret, resp, req, trace, parsed, found>>

Callers == 1..NumCallers

\* The locals kept in one place shared by all calls.
FrameShared(c) == 1
\* Each call of Find has its own frame for the locals full, body and line.
Frame(c) == c

NoResp == [kind |-> "none", cause |-> "", code |-> 0, status |-> <<>>, body |-> <<>>, readOK |-> TRUE]
NoRet == [n |-> Zero, err |-> NoErr]

\* What the client and the endpoint can answer to one Get: the request
\* fails, or a response arrives with a status and a body, whose reading
\* may break off.
Responses ==
  LET bodies == IF server.fixed THEN {server.content} ELSE Bodies
  IN  {[kind |-> "transport", cause |-> x, code |-> 0, status |-> <<>>, body |-> <<>>, readOK |-> TRUE] :
         x \in {"dial tcp: connection refused"}}
      \cup {[kind |-> "http", cause |-> "", code |-> 429, status |-> <<"429 Too Many Requests">>,
             body |-> <<>>, readOK |-> TRUE]}
      \cup {[kind |-> "http", cause |-> "", code |-> 503, status |-> <<"503 Service Unavailable">>,
             body |-> b, readOK |-> TRUE] : b \in bodies}
      \cup {[kind |-> "http", cause |-> "", code |-> StatusOK, status |-> <<"200 OK">>,
             body |-> b, readOK |-> ok] : b \in bodies, ok \in BOOLEAN}

\* The *url.Error http.Client.Get returns.
URLError(url, cause) == [kind |-> "*url.Error", text |-> <<"Get ">> \o url \o <<": ", cause>>]
ErrUnexpectedEOF == [kind |-> "io.ErrUnexpectedEOF", text |-> <<"unexpected EOF">>]

\* ioutil.ReadAll(resp.Body): the whole body, or what was read before the
\* connection broke together with the error.
ReadAll(r) ==
  IF r.readOK THEN [body |-> r.body, err |-> NoErr]
  ELSE [body |-> SubSeq(r.body, 1, Len(r.body) \div 2), err |-> ErrUnexpectedEOF]

\* The URL fetchPrefix asks for.
FetchURL(fd, prefix) == Sprintf(fd.tmpl, <<prefix>>)

\* func (f *Finder) fetchPrefix, given the answer r to its Get.
fetchPrefix(fd, prefix, r) ==
  IF r.kind = "transport" THEN [body |-> <<>>, err |-> URLError(FetchURL(fd, prefix), r.cause)]
  ELSE IF r.code # StatusOK THEN [body |-> <<>>, err |-> Errorf(r.status, <<>>)]
  ELSE ReadAll(r)

\* The length checks with the first comparison off by one.
CheckLenOffByOne(s) ==
  IF Len(s) <= sha1Size THEN ErrShortBuffer
  ELSE IF Len(s) > sha1Size THEN ErrShortWrite
  ELSE NoErr
\* Find's length checks: the error it returns at once, NoErr when it goes on.
CheckLen(s) ==
  IF Len(s) < sha1Size THEN ErrShortBuffer
  ELSE IF Len(s) > sha1Size THEN ErrShortWrite
  ELSE NoErr

\* Find going on to the scan whatever fetchPrefix returned.
AfterFetchSwallow(err) == "scan"
\* Find asking again after a failed fetch.
AfterFetchRetry(err) == IF err # NoErr THEN "fetch" ELSE "scan"
\* Where Find goes after fetchPrefix returned err.
AfterFetch(err) == IF err # NoErr THEN "done" ELSE "scan"

\* func NewFinder: the defaults, then every option applied in order.
RECURSIVE ApplyOptions(_, _)
ApplyOptions(fd, options) ==
  IF options = <<>> THEN fd
  ELSE ApplyOptions(
         IF Head(options).opt = "tmpl" THEN [fd EXCEPT !.tmpl = Head(options).tmpl]
         ELSE [fd EXCEPT !.conn = Head(options).conn],
         Tail(options))
NewFinder(options) == ApplyOptions([tmpl |-> DefaultTemplate, conn |-> "http.DefaultClient"], options)

InitCalls ==
  /\ pc = [c \in Callers |-> "idle"]
  /\ sum = [c \in Callers |-> <<>>]
  /\ full = [c \in Callers |-> <<>>]
  /\ body = [c \in Callers |-> <<>>]
  /\ line = [c \in Callers |-> <<>>]
  /\ ret = [c \in Callers |-> NoRet]
  /\ resp = [c \in Callers |-> NoResp]
  /\ req = [c \in Callers |-> <<>>]
  /\ trace = [c \in Callers |-> <<>>]
  /\ parsed = [ran |-> FALSE, input |-> <<>>, out |-> NoRet]
  /\ found = [ran |-> FALSE, suffix |-> <<>>, content |-> <<>>, out |-> [line |-> <<>>, err |-> NoErr]]

\* One caller, and an endpoint whose content may differ from call to call.
Init ==
  /\ f \in {NewFinder(o) : o \in TestOptions}
  /\ server = [fixed |-> FALSE, content |-> <<>>]
  /\ active = {1}
  /\ InitCalls

\* Find, lines 103-110: the length checks and the hex text.
CallWith(c, d) ==
  /\ sum' = [sum EXCEPT ![c] = d]
  /\ trace' = [trace EXCEPT ![c] = <<"validate">>]
  /\ IF CheckLen(d) # NoErr
       THEN /\ ret' = [ret EXCEPT ![c] = [n |-> Zero, err |-> CheckLen(d)]]
            /\ pc' = [pc EXCEPT ![c] = "done"]
            /\ full' = full
       ELSE /\ full' = [full EXCEPT ![Frame(c)] = SprintfX(d)]
            /\ pc' = [pc EXCEPT ![c] = "fetch"]
            /\ ret' = ret
  /\ UNCHANGED <<f, server, active, body, line, resp, req, parsed, found>>

Call(c) ==
  /\ c \in active
  /\ pc[c] = "idle"
  /\ \E d \in (IF server.fixed THEN ConcDigests ELSE Digests) : CallWith(c, d)

\* Find, lines 111-114: fetchPrefix and the check of its error.
FetchWith(c, r) ==
  /\ LET prefix == SubSeq(full[Frame(c)], 1, prefixSize)
         got == fetchPrefix(f, prefix, r)
     IN  /\ req' = [req EXCEPT ![c] = Append(@, FetchURL(f, prefix))]
         /\ resp' = [resp EXCEPT ![c] = r]
         /\ trace' = [trace EXCEPT ![c] = Append(@, "fetch")]
         /\ pc' = [pc EXCEPT ![c] = AfterFetch(got.err)]
         /\ IF AfterFetch(got.err) = "done"
              THEN /\ ret' = [ret EXCEPT ![c] = [n |-> Zero, err |-> got.err]]
                   /\ body' = body
              ELSE /\ body' = [body EXCEPT ![Frame(c)] = got.body]
                   /\ ret' = ret
  /\ UNCHANGED <<f, server, active, sum, full, line, parsed, found>>

Fetch(c) ==
  /\ pc[c] = "fetch"
  /\ \E r \in Responses : FetchWith(c, r)

\* Find, lines 116-122: findSuffix and the checks of its result.
Scan(c) ==
  /\ pc[c] = "scan"
  /\ LET got == findSuffix(SubSeq(full[Frame(c)], prefixSize + 1, Len(full[Frame(c)])), body[Frame(c)])
     IN  /\ trace' = [trace EXCEPT ![c] = Append(@, "scan")]
         /\ IF got.err # NoErr
              THEN /\ ret' = [ret EXCEPT ![c] = [n |-> Zero, err |-> got.err]]
                   /\ pc' = [pc EXCEPT ![c] = "done"]
                   /\ line' = line
            ELSE IF Len(got.line) = 0
              THEN /\ ret' = [ret EXCEPT ![c] = [n |-> Zero, err |-> NoErr]]
                   /\ pc' = [pc EXCEPT ![c] = "done"]
                   /\ line' = line
            ELSE /\ line' = [line EXCEPT ![Frame(c)] = got.line]
                 /\ pc' = [pc EXCEPT ![c] = "parse"]
                 /\ ret' = ret
  /\ UNCHANGED <<f, server, active, sum, full, body, resp, req, parsed, found>>

\* Find, line 123: return parseCount(line).
Parse(c) ==
  /\ pc[c] = "parse"
  /\ ret' = [ret EXCEPT ![c] = parseCount(line[Frame(c)])]
  /\ trace' = [trace EXCEPT ![c] = Append(@, "parse")]
  /\ pc' = [pc EXCEPT ![c] = "done"]
  /\ UNCHANGED <<f, server, active, sum, full, body, line, resp, req, parsed, found>>

\* The caller takes the result; the frame and its locals are gone.
Return(c) ==
  /\ pc[c] = "done"
  /\ pc' = [pc EXCEPT ![c] = "idle"]
  /\ sum' = [sum EXCEPT ![c] = <<>>]
  /\ full' = [full EXCEPT ![Frame(c)] = <<>>]
  /\ body' = [body EXCEPT ![Frame(c)] = <<>>]
  /\ line' = [line EXCEPT ![Frame(c)] = <<>>]
  /\ ret' = [ret EXCEPT ![c] = NoRet]
  /\ resp' = [resp EXCEPT ![c] = NoResp]
  /\ req' = [req EXCEPT ![c] = <<>>]
  /\ trace' = [trace EXCEPT ![c] = <<>>]
  /\ UNCHANGED <<f, server, active, parsed, found>>

Next ==
  \/ \E c \in Callers : Call(c)
  \/ \E c \in Callers : Fetch(c)
  \/ \E c \in Callers : Scan(c)
  \/ \E c \in Callers : Parse(c)
  \/ \E c \in Callers : Return(c)

Spec == Init /\ [][Next]_vars

\* Several callers on one Finder, and an endpoint that serves one Candidate
\* Set throughout.
InitConc ==
  /\ f \in {NewFinder(o) : o \in AnyOptions}
  /\ server \in {[fixed |-> TRUE, content |-> b] : b \in ConcBodies}
  /\ active = Callers
  /\ InitCalls

SpecConc == InitConc /\ [][Next]_vars

\* func (f *Finder) Find, run from its first line to its return against the
\* answer r to its request.
Find(fd, s, r) ==
  IF CheckLen(s) # NoErr THEN [n |-> Zero, err |-> CheckLen(s)]
  ELSE
    LET hex == SprintfX(s)
        got == fetchPrefix(fd, SubSeq(hex, 1, prefixSize), r)
        hit == findSuffix(SubSeq(hex, prefixSize + 1, Len(hex)), got.body)
    IN  IF AfterFetch(got.err) = "done" THEN [n |-> Zero, err |-> got.err]
        ELSE IF hit.err # NoErr THEN [n |-> Zero, err |-> hit.err]
        ELSE IF Len(hit.line) = 0 THEN [n |-> Zero, err |-> NoErr]
        ELSE parseCount(hit.line)

\* ---------------------------------------------------- the helpers' tests
\* const scanContent, and the same lines otherwise ended and ordered.
scanContent == <<"\n", "a", "l", "p", "h", "a", ":", "0", "\n", "b", "e", "t", "a", ":", "1", "\n", "g", "a", "m", "m", "a", ":", "2", "\n", "d", "e", "l", "t", "a", ":", "3", "\n">>
TestContents ==
  { scanContent,
    <<"a", "l", "p", "h", "a", ":", "0", "\r", "\n", "b", "e", "t", "a", ":", "1", "\r", "\n", "g", "a", "m", "m", "a", ":", "2", "\r", "\n", "d", "e", "l", "t", "a", ":", "3">>,
    <<"g", "a", "m", "m", "a", ":", "x", "\n", "g", "a", "m", "m", "a", ":", "2", "\n">>,
    <<"b", "e", "t", "a", ":", "1", "\n">> \o <<Pad, NL>> \o <<"g", "a", "m", "m", "a", ":", "2", "\n">>,
    <<"g", "a", "m", "m", "a", ":", "2", "\n">> \o <<Pad>>,
    <<>>,
    <<NL>> }
TestSuffixes == { <<"a", "l", "p", "h", "a">>, <<"o", "m", "e", "g", "a">>, <<"a", "m", "m", "a">>, <<"g", "a", "m", "m", "a">>, <<"A", "l", "p", "h", "a">>, <<"d", "e", "l", "t", "a", ":", "3">>, <<>> }

\* The bodies of TestParseCount's table, and count fields at and beyond the
\* edges of int64.
ParseInputs ==
  { <<>>, <<"h", "u", "b", "b", "a">>, <<":", ":">>, <<"a", "l", "p", "h", "a", ":">>, <<"a", "l", "p", "h", "a", ":", "b", "r", "a", "v", "o">>, <<"a", "l", "p", "h", "a", ":", "1", "1", "7">>, <<"a", "l", "p", "h", "a", ":", "2", "3", "4", "5", "6", "7", "8", "9", "0", "1">>,
    <<"a", "l", "p", "h", "a", ":", "-", "5">>, <<"a", "l", "p", "h", "a", ":", "+", "7">>, <<"a", "l", "p", "h", "a", ":", "-", "0">>, <<"a", "l", "p", "h", "a", ":", "0", "0", "7">>, <<"a", "l", "p", "h", "a", ":", "-">>, <<"a", "l", "p", "h", "a", ":", " ", "5">>,
    <<"a", "l", "p", "h", "a", ":", "1", "2", "x">>, <<":", "5">>, <<"a", ":", "b", ":", "c">>, <<"a", "l", "p", "h", "a", ":", "1", ":">>,
    <<"a", "l", "p", "h", "a", ":", "9", "2", "2", "3", "3", "7", "2", "0", "3", "6", "8", "5", "4", "7", "7", "5", "8", "0", "7">>, <<"a", "l", "p", "h", "a", ":", "9", "2", "2", "3", "3", "7", "2", "0", "3", "6", "8", "5", "4", "7", "7", "5", "8", "0", "8">>,
    <<"a", "l", "p", "h", "a", ":", "-", "9", "2", "2", "3", "3", "7", "2", "0", "3", "6", "8", "5", "4", "7", "7", "5", "8", "0", "8">>, <<"a", "l", "p", "h", "a", ":", "-", "9", "2", "2", "3", "3", "7", "2", "0", "3", "6", "8", "5", "4", "7", "7", "5", "8", "0", "9">>,
    <<"a", "l", "p", "h", "a", ":", "1", "8", "4", "4", "6", "7", "4", "4", "0", "7", "3", "7", "0", "9", "5", "5", "1", "6", "1", "6">>, <<"a", "l", "p", "h", "a", ":", "9", "9", "9", "9", "9", "9", "9", "9", "9", "9", "9", "9", "9", "9", "9", "9", "9", "9", "9", "9", "x">> }

\* One case of TestParseCount.
TestParseCount ==
  \E b \in ParseInputs :
    /\ parsed' = [ran |-> TRUE, input |-> b, out |-> parseCount(b)]
    /\ UNCHANGED <<f, server, active, pc, sum, full, body, line, ret, resp, req, trace, found>>

\* One case of TestFindSuffix.
TestFindSuffix ==
  \E sfx \in TestSuffixes, content \in TestContents :
    /\ found' = [ran |-> TRUE, suffix |-> sfx, content |-> content, out |-> findSuffix(sfx, content)]
    /\ UNCHANGED <<f, server, active, pc, sum, full, body, line, ret, resp, req, trace, parsed>>

\* The helpers' tests alone: no caller of Find.
InitUnit ==
  /\ f = NewFinder(<<>>)
  /\ server = [fixed |-> FALSE, content |-> <<>>]
  /\ active = {}
  /\ InitCalls

NextUnit == TestParseCount \/ TestFindSuffix

SpecUnit == InitUnit /\ [][NextUnit]_vars

\* ------------------------------------------------- terms of the claims
\* l begins with the bytes of sfx.
Begins(l, sfx) == Len(l) >= Len(sfx) /\ \A i \in 1..Len(sfx) : l[i] = sfx[i]

\* The lines of a text: what stands between its newlines, with a last
\* line only when bytes follow the last newline.
NewlinesOf(t) == {i \in 1..Len(t) : t[i] = NL}
\* The position of the k-th newline of t.
NewlineAt(t, k) == CHOOSE p \in NewlinesOf(t) : Cardinality({q \in NewlinesOf(t) : q < p}) = k - 1
RawLines(t) ==
  LET n == Cardinality(NewlinesOf(t))
      open == Len(t) > 0 /\ t[Len(t)] # NL
  IN  [k \in 1..(IF open THEN n + 1 ELSE n) |->
         SubSeq(t, IF k = 1 THEN 1 ELSE NewlineAt(t, k - 1) + 1,
                   IF k <= n THEN NewlineAt(t, k) - 1 ELSE Len(t))]

\* A line without the carriage return that may end it.
Chomp(l) == IF l # <<>> /\ l[Len(l)] = CR THEN SubSeq(l, 1, Len(l) - 1) ELSE l

\* A line of 64 KiB or more before its newline.
Overlong(l) == ByteLen(l) >= 64 * 1024
HasOverlong(t) == \E i \in 1..Len(RawLines(t)) : Overlong(RawLines(t)[i])

\* The lines the scanner delivers: those before the first overlong one.
DeliveredLines(t) ==
  LET ls == RawLines(t)
      stop == {i \in 1..Len(ls) : Overlong(ls[i])}
      n == IF stop = {} THEN Len(ls) ELSE (CHOOSE i \in stop : \A j \in stop : i <= j) - 1
  IN  [i \in 1..n |-> Chomp(ls[i])]

\* The indices of the lines that begin with sfx, and the least of them.
Matches(ls, sfx) == {i \in 1..Len(ls) : Begins(ls[i], sfx)}
Least(S) == CHOOSE i \in S : \A j \in S : i <= j

\* The text before the first colon of a line (all of it without one) and
\* the text after it.
ColonAt(l) == {i \in 1..Len(l) : l[i] = Colon}
LeadField(l) == IF ColonAt(l) = {} THEN l ELSE SubSeq(l, 1, Least(ColonAt(l)) - 1)
CountField(l) == IF ColonAt(l) = {} THEN <<>> ELSE SubSeq(l, Least(ColonAt(l)) + 1, Len(l))

\* A base-10 integer: an optional sign and one or more digits.
Unsigned(t) == IF t # <<>> /\ t[1] \in {"+", "-"} THEN Tail(t) ELSE t
IsDecimal(t) ==
  /\ Unsigned(t) # <<>>
  /\ \A i \in 1..Len(Unsigned(t)) : Unsigned(t)[i] \in {"0", "1", "2", "3", "4", "5", "6", "7", "8", "9"}
\* Its magnitude, without leading zeros.
MagOf(t) ==
  LET d == Unsigned(t)
      nz == {i \in 1..Len(d) : d[i] # "0"}
  IN  IF nz = {} THEN <<0>> ELSE [i \in 1..(Len(d) - Least(nz) + 1) |-> DigitVal(d[Least(nz) + i - 1])]
IntValue(t) == [neg |-> t[1] = "-" /\ MagOf(t) # <<0>>, mag |-> MagOf(t)]
\* A base-10 integer in -(1<<63) .. (1<<63)-1.
IsInt64Text(t) ==
  /\ IsDecimal(t)
  /\ IF t[1] = "-" THEN ~MagLess(CutoffMag, MagOf(t)) ELSE MagLess(MagOf(t), CutoffMag)

\* The first five hex digits of a digest, as numbers.
FirstFive(s) == <<s[1] \div 16, s[1] % 16, s[2] \div 16, s[2] % 16, s[3] \div 16>>
\* The 35 hex digits after them.
Suffix35(s) == SubSeq(SprintfX(s), 6, 40)

Done(c) == pc[c] = "done"
Sized(c) == Len(sum[c]) = 20
FetchOK(c) == resp[c].kind = "http" /\ resp[c].code = 200 /\ resp[c].readOK
Stepped(c, step) == \E i \in 1..Len(trace[c]) : trace[c][i] = step
\* What findSuffix returned to a call that has scanned.
ScanLine(c) == line[c]
ScanErr(c) == IF pc[c] = "parse" \/ Stepped(c, "parse") THEN NoErr ELSE ret[c].err

\* ------------------------------------------------------------- claims
\* C1: a digest whose length is not 20 gets count 0 and an input-shape
\* error with no request sent: io.ErrShortBuffer when shorter,
\* io.ErrShortWrite when longer; the two differ, and a digest of 20 bytes
\* gets neither.
C1_InputShape ==
  /\ ErrShortBuffer # ErrShortWrite
  /\ \A c \in Callers :
       Done(c) =>
         /\ Len(sum[c]) < 20 =>
              ret[c] = [n |-> Zero, err |-> ErrShortBuffer] /\ req[c] = <<>> /\ ~Stepped(c, "fetch")
         /\ Len(sum[c]) > 20 =>
              ret[c] = [n |-> Zero, err |-> ErrShortWrite] /\ req[c] = <<>> /\ ~Stepped(c, "fetch")
         /\ Len(sum[c]) = 20 => ret[c].err \notin {ErrShortBuffer, ErrShortWrite}
C1_Witness == \E c \in Callers : Done(c) /\ Len(sum[c]) = 21 /\ ret[c].err = ErrShortWrite

\* C2 as stated: after a successful fetch, if some line's leading field is
\* exactly the digest's suffix, Find returns the count on such a line with
\* no error; if no line's leading field is the suffix, Find returns 0 with
\* no error.
C2_Original ==
  \A c \in Callers :
    Done(c) /\ Sized(c) /\ FetchOK(c) =>
      LET ls == RawLines(resp[c].body)
          exact == {i \in 1..Len(ls) : LeadField(Chomp(ls[i])) = Suffix35(sum[c])}
      IN  /\ exact # {} =>
               /\ ret[c].err = NoErr
               /\ \E i \in exact :
                    /\ IsInt64Text(CountField(Chomp(ls[i])))
                    /\ ret[c].n = IntValue(CountField(Chomp(ls[i])))
          /\ exact = {} => ret[c] = [n |-> Zero, err |-> NoErr]

\* C2 as amended: after a successful fetch, if the first line that begins
\* with the digest's suffix, among the lines before any line of 64 KiB or
\* more, is the suffix, a colon and a base-10 integer in the int64 range,
\* Find returns that integer with no error; if no line begins with the
\* suffix and every line is shorter than 64 KiB, Find returns 0 with no
\* error.
C2_FirstMatch ==
  \A c \in Callers :
    Done(c) /\ Sized(c) /\ FetchOK(c) =>
      LET ls == DeliveredLines(resp[c].body)
          m == Matches(ls, Suffix35(sum[c]))
      IN  /\ (/\ m # {}
              /\ LeadField(ls[Least(m)]) = Suffix35(sum[c])
              /\ IsInt64Text(CountField(ls[Least(m)])))
               => ret[c] = [n |-> IntValue(CountField(ls[Least(m)])), err |-> NoErr]
          /\ (m = {} /\ ~HasOverlong(resp[c].body)) => ret[c] = [n |-> Zero, err |-> NoErr]
C2_Witness ==
  \E c \in Callers :
    /\ Done(c) /\ Sized(c) /\ FetchOK(c)
    /\ Len(RawLines(resp[c].body)) = 2
    /\ Matches(DeliveredLines(resp[c].body), Suffix35(sum[c])) = {2}
    /\ ret[c] = [n |-> [neg |-> FALSE, mag |-> <<4, 0, 1>>], err |-> NoErr]

\* C3: two calls whose digests share their first five hex digits send the
\* same request, whatever the other 35 digits and whatever the template.
C3_PrefixOnly ==
  \A c1 \in Callers, c2 \in Callers :
    (/\ req[c1] # <<>> /\ req[c2] # <<>>
     /\ FirstFive(sum[c1]) = FirstFive(sum[c2]))
      => req[c1] = req[c2]
C3_Witness ==
  \E c1 \in Callers, c2 \in Callers :
    /\ req[c1] # <<>> /\ req[c2] # <<>>
    /\ FirstFive(sum[c1]) = FirstFive(sum[c2])
    /\ Suffix35(sum[c1])[1] # Suffix35(sum[c2])[1]
    /\ f.tmpl # DefaultTemplate

\* C4: whenever Find returns an error, the count it returns is 0.
C4_ZeroOnError == \A c \in Callers : Done(c) /\ ret[c].err # NoErr => ret[c].n = Zero

\* C5: whenever Find returns no error, the count it returns is not negative.
C5_NonNegative == \A c \in Callers : Done(c) /\ ret[c].err = NoErr => ~ret[c].n.neg

\* C6, its first part: a failed request or a status other than 200 gives 0
\* and an error carrying the transport error or the status text, and the
\* body is not scanned.
C6_Failures ==
  \A c \in Callers :
    Done(c) /\ Sized(c) =>
      /\ resp[c].kind = "transport" =>
           /\ ret[c].n = Zero /\ ret[c].err.kind = "*url.Error"
           /\ ret[c].err.text[Len(ret[c].err.text)] = resp[c].cause
           /\ ~Stepped(c, "scan")
      /\ (resp[c].kind = "http" /\ resp[c].code # 200) =>
           /\ ret[c].n = Zero /\ ret[c].err # NoErr /\ ret[c].err.text = resp[c].status
           /\ ~Stepped(c, "scan")

\* C6 as stated: the failures as above, and (0, nil) is returned only when
\* the fetch succeeded and no line matched.
C6_Original ==
  /\ C6_Failures
  /\ \A c \in Callers :
       (Done(c) /\ Sized(c) /\ ret[c] = [n |-> Zero, err |-> NoErr]) =>
         /\ FetchOK(c)
         /\ Matches(DeliveredLines(resp[c].body), Suffix35(sum[c])) = {}

\* C6 as amended: the failures as above, and (0, nil) is returned only when
\* the fetch succeeded and either no line matched or the count on the
\* matched line is zero.
C6_NotFoundOnlyOnSuccess ==
  /\ C6_Failures
  /\ \A c \in Callers :
       (Done(c) /\ Sized(c) /\ ret[c] = [n |-> Zero, err |-> NoErr]) =>
         /\ FetchOK(c)
         /\ LET ls == DeliveredLines(resp[c].body)
                m == Matches(ls, Suffix35(sum[c]))
            IN  \/ m = {}
                \/ /\ IsInt64Text(CountField(ls[Least(m)]))
                   /\ IntValue(CountField(ls[Least(m)])) = Zero
C6_Witness ==
  \E c \in Callers :
    /\ Done(c) /\ Sized(c)
    /\ resp[c].kind = "http" /\ resp[c].code = 503
    /\ Matches(DeliveredLines(resp[c].body), Suffix35(sum[c])) # {}
    /\ ret[c].n = Zero /\ ret[c].err # NoErr

\* C7: a call on a 20-byte digest sends exactly one request, after the
\* length checks and before any scanning or parsing, and never a second.
C7_OneFetch ==
  \A c \in Callers :
    /\ Len(req[c]) <= 1
    /\ Len(req[c]) = Cardinality({i \in 1..Len(trace[c]) : trace[c][i] = "fetch"})
    /\ (Stepped(c, "scan") \/ Stepped(c, "parse") \/ (Done(c) /\ Sized(c))) =>
         /\ Len(req[c]) = 1
         /\ trace[c][1] = "validate" /\ trace[c][2] = "fetch"
         /\ \A i \in 3..Len(trace[c]) : trace[c][i] \in {"scan", "parse"}
C7_Witness ==
  \E c \in Callers :
    Done(c) /\ Sized(c) /\ Stepped(c, "parse") /\ ret[c].err # NoErr /\ Len(req[c]) = 1

\* C8, per state: every finished call has the result Find gives when run
\* alone on its digest against the answer its request got, so two finished
\* calls with the same digest and the same answer have the same result.
C8_AsAlone ==
  /\ \A c \in Callers : Done(c) => ret[c] = Find(f, sum[c], resp[c])
  /\ \A c1 \in Callers, c2 \in Callers :
       (Done(c1) /\ Done(c2) /\ sum[c1] = sum[c2] /\ resp[c1] = resp[c2]) => ret[c1] = ret[c2]
\* C8: no step changes the Finder's template or client, and under every
\* interleaving each call returns what it would return alone.
C8_Stateless == [][f' = f]_vars /\ []C8_AsAlone
C8_Witness ==
  /\ Done(1) /\ Done(2)
  /\ Sized(1) /\ Sized(2) /\ FetchOK(1) /\ FetchOK(2)
  /\ sum[1] # sum[2] /\ ret[1] # ret[2]

\* What C9 says of a call that has scanned, given the error findSuffix
\* returns when no delivered line begins with the suffix.
C9_Scan(c, errNoMatch) ==
  LET ls == DeliveredLines(resp[c].body)
      m == Matches(ls, Suffix35(sum[c]))
  IN  /\ m # {} =>
           /\ ScanLine(c) = ls[Least(m)] /\ ScanErr(c) = NoErr
           /\ Done(c) => ret[c] = parseCount(ls[Least(m)])
      /\ m = {} => ScanLine(c) = <<>> /\ ScanErr(c) = errNoMatch

\* C9 as stated: findSuffix returns the first delivered line that begins
\* with the suffix, and that line alone decides Find's result; when no line
\* begins with the suffix it returns an empty line and no error.
C9_Original == \A c \in Callers : Stepped(c, "scan") => C9_Scan(c, NoErr)

\* C9 as amended: as stated, but when no delivered line begins with the
\* suffix the empty line comes with no error only if the scan reached the
\* end of the content, and with bufio.ErrTooLong if it stopped at a line of
\* 64 KiB or more.
C9_FirstLine ==
  \A c \in Callers :
    Stepped(c, "scan") =>
      C9_Scan(c, IF HasOverlong(resp[c].body) THEN ErrTooLong ELSE NoErr)
C9_Witness ==
  \E c \in Callers :
    /\ Done(c) /\ Stepped(c, "scan")
    /\ Cardinality(Matches(DeliveredLines(resp[c].body), Suffix35(sum[c]))) = 2
    /\ ret[c].err # NoErr
    /\ IsInt64Text(CountField(DeliveredLines(resp[c].body)[2]))

\* C10: parseCount succeeds exactly on a line with one colon followed by a
\* base-10 integer in the int64 range, and returns that integer; a line
\* with no colon or several gets the malformed-line error quoting it, and
\* an empty or non-numeric count field gets an error, each with result 0.
C10_ParseCount ==
  parsed.ran =>
    LET l == parsed.input
        k == Cardinality(ColonAt(l))
    IN  /\ k # 1 =>
             /\ parsed.out.n = Zero
             /\ parsed.out.err = [kind |-> "fmt.Errorf", text |-> errMsgFormat \o <<": ">> \o l]
        /\ parsed.out.err = NoErr <=> (k = 1 /\ IsInt64Text(CountField(l)))
        /\ parsed.out.err = NoErr => parsed.out.n = IntValue(CountField(l))
        /\ (k = 1 /\ ~IsDecimal(CountField(l))) => parsed.out.err # NoErr /\ parsed.out.n = Zero

====
